---- MODULE Spec2Model ----
(***************************************************************************)
(* Model of the navigation bar of the UWO database site                    *)
(* (src/components/Navbar.tsx): the Season and Port day/night calculators  *)
(* useSeason and usePortPhase, the formatting helpers, and the Navbar      *)
(* component with its 1-second interval timer.                             *)
(*                                                                         *)
(* Time.  A Date is modelled at the resolution getPDTParts observes, whole *)
(* seconds, as the number of seconds on the America/Los_Angeles civil time *)
(* line since 1970-01-01 00:00:00 (civil time without clock jumps).        *)
(*                                                                         *)
(* Numbers.  The code computes in minutes with a fractional part           *)
(* second/60.  The model computes the same quantities in whole seconds     *)
(* (every "...Sec" definition is the code's "...Min" value times 60), and  *)
(* a progress fraction is the exact rational <<numerator, denominator>>.   *)
(***************************************************************************)
EXTENDS Integers, Sequences, FiniteSets, TLC

VARIABLES
    clock,      \* the wall clock read by new Date(), in civil seconds
    now,        \* Navbar state `now` (useState<Date>)
    mounted,    \* whether a Navbar is mounted
    inst,       \* number of the Navbar instance mounted last (0: none yet)
    timers,     \* the active interval timers: records [id, owner]
    nextId,     \* the id setInterval returns next
    cleanupId,  \* the timer id captured by the mounted Navbar's effect cleanup
    staleSet,   \* whether a timer called setNow of a Navbar that is not mounted
    memoNow,    \* the `now` from which the memoised parts `p` were computed
    ringArg,    \* the argument of the last call of ringStyle
    ringResult, \* the style that call returned
    shipsPage,  \* the useState values of ShipsPage
    skillImg,   \* an optional-skill icon <img> and its onError chain
    imageHook,  \* the state of a useLocalImage / useSkillIcon hook
    loadout,    \* EquipmentPage state `loadout`
    dataPage    \* a data page's load effect: its fetch, its flag, its setters

vars == <<clock, now, mounted, inst, timers, nextId, cleanupId, staleSet,
          memoNow, ringArg, ringResult,
          shipsPage, skillImg, imageHook, loadout, dataPage>>

\* the state of the Navbar component and of its timers
navVars == <<clock, now, mounted, inst, timers, nextId, cleanupId, staleSet, memoNow>>

\* the state of the ringStyle calls
ringVars == <<ringArg, ringResult>>

\* the state of the database pages
pageVars == <<shipsPage, skillImg, imageHook, loadout, dataPage>>

----------------------------------------------------------------------------
(* Bounds of the model *)

\* the ships page is followed while at most this many of its inputs,
\* selections, expanded rows and remembered header clicks differ from their
\* initial values
MaxEdits == 3
\* the loads of one skill icon are followed up to this many
MaxLoads == 6
\* each window of civil time covers this many whole days
WindowDays == 2
\* Navbar instances mounted in one behaviour of the lifecycle specification
MaxMounts == 3
\* seconds the wall clock advances in the lifecycle specification
MaxClockSteps == 6
\* largest numerator (in quarters) of a progress value passed to ringStyle
MaxRingNum == 15

----------------------------------------------------------------------------
(* Calendar arithmetic behind Date.UTC and Intl.DateTimeFormat *)

\* Date.UTC(year, monthIndex, day) / 86400000: the day number of a civil
\* date (monthIndex is 0-based, as in JavaScript)
DateUTCDays(year, monthIndex, day) ==
    LET m   == monthIndex + 1
        y   == IF m <= 2 THEN year - 1 ELSE year
        era == y \div 400
        yoe == y - era * 400
        mp  == IF m > 2 THEN m - 3 ELSE m + 9
        doy == (153 * mp + 2) \div 5 + day - 1
        doe == yoe * 365 + yoe \div 4 - yoe \div 100 + doy
    IN  era * 146097 + doe - 719468

\* the civil date (year, month 1..12, day) of a day number
CivilFromDays(z) ==
    LET s   == z + 719468
        era == s \div 146097
        doe == s - era * 146097
        yoe == (doe - doe \div 1460 + doe \div 36524 - doe \div 146096) \div 365
        doy == doe - (365 * yoe + yoe \div 4 - yoe \div 100)
        mp  == (5 * doy + 2) \div 153
        d   == doy - (153 * mp + 2) \div 5 + 1
        m   == IF mp < 10 THEN mp + 3 ELSE mp - 9
        y   == yoe + era * 400
    IN  [year |-> IF m <= 2 THEN y + 1 ELSE y, month |-> m, day |-> d]

\* getPDTParts(d): the civil fields of a Date
getPDTParts(d) ==
    LET date == CivilFromDays(d \div 86400)
        sod  == d % 86400
    IN  [year   |-> date.year,
         month  |-> date.month,
         day    |-> date.day,
         hour   |-> sod \div 3600,
         minute |-> (sod % 3600) \div 60,
         second |-> sod % 60]

\* the Date of a civil date and time of day
DateOf(year, month, day, hour, minute, second) ==
    DateUTCDays(year, month - 1, day) * 86400 + hour * 3600 + minute * 60 + second

----------------------------------------------------------------------------
(* Formatting helpers *)

pad2(n) == IF Len(ToString(n)) < 2 THEN "0" \o ToString(n) ELSE ToString(n)

fmtHMS(h, m, s) == pad2(h) \o ":" \o pad2(m) \o ":" \o pad2(s)

fmtHM(h, m) == pad2(h) \o ":" \o pad2(m)

fmtMMSS(secs) == pad2(secs \div 60) \o ":" \o pad2(secs % 60)

----------------------------------------------------------------------------
(* Arithmetic helpers *)

\* JavaScript's % : the remainder takes the sign of the dividend
JsRem(a, b) == IF a >= 0 THEN a % b ELSE -((-a) % b)

Max(a, b) == IF a >= b THEN a ELSE b

Min(a, b) == IF a <= b THEN a ELSE b

\* Math.max(0, Math.min(1, n/d)) on a fraction n/d with d > 0
Clamp01(q) == <<Max(0, Min(q[2], q[1])), q[2]>>

\* comparison of fractions with positive denominators
FracLeq(a, b) == IF a[2] = b[2] THEN a[1] <= b[1] ELSE a[1] * b[2] <= b[1] * a[2]

FracEq(a, b) == IF a[2] = b[2] THEN a[1] = b[1] ELSE a[1] * b[2] = b[1] * a[2]

\* JavaScript numbers beyond the finite fractions: NaN is 0/0, Infinity is
\* 1/0 and -Infinity is -1/0
NaN == <<0, 0>>

IsNaN(q) == q[2] = 0 /\ q[1] = 0

\* a <= b on JavaScript numbers: false when either side is NaN
NumLeq(a, b) ==
    /\ ~IsNaN(a) /\ ~IsNaN(b)
    /\ IF a[2] = 0 THEN a[1] < 0 \/ (b[2] = 0 /\ b[1] > 0)
       ELSE IF b[2] = 0 THEN b[1] > 0
       ELSE FracLeq(a, b)

\* a === b on JavaScript numbers
NumEq(a, b) == NumLeq(a, b) /\ NumLeq(b, a)

\* Math.max(a, b) and Math.min(a, b): NaN when either argument is NaN
MathMax(a, b) == IF IsNaN(a) \/ IsNaN(b) THEN NaN ELSE IF NumLeq(a, b) THEN b ELSE a

MathMin(a, b) == IF IsNaN(a) \/ IsNaN(b) THEN NaN ELSE IF NumLeq(a, b) THEN a ELSE b

----------------------------------------------------------------------------
(* useSeason: Summer/Winter alternation from an anchor instant *)

SUMMER_HOURS == 11

WINTER_HOURS == 9

ANCHOR_Y == 2025

ANCHOR_M == 10

ANCHOR_D == 4

ANCHOR_MIN_OF_DAY == 3 * 60 + 30

SUMMER_MIN == SUMMER_HOURS * 60

WINTER_MIN == WINTER_HOURS * 60

PATTERN_MIN == SUMMER_MIN + WINTER_MIN

\* variant: the day of the month subtracted, months and years ignored
daysSinceAnchorDayOfMonth(p) == p.day - ANCHOR_D

\* variant: whole 24-hour periods elapsed since the anchor instant
daysSinceAnchorElapsed(p) ==
    (DateOf(p.year, p.month, p.day, p.hour, p.minute, p.second)
       - DateOf(ANCHOR_Y, ANCHOR_M, ANCHOR_D, 0, 0, 0) - ANCHOR_MIN_OF_DAY * 60) \div 86400

\* whole calendar days from the anchor's civil date to the civil date of p
daysSinceAnchor(p) ==
    DateUTCDays(p.year, p.month - 1, p.day) - DateUTCDays(ANCHOR_Y, ANCHOR_M - 1, ANCHOR_D)

\* minutesToday * 60
secondsToday(p) == (p.hour * 60 + p.minute) * 60 + p.second

\* totalMin * 60 before normalisation
rawTotalSec(p) ==
    daysSinceAnchor(p) * 86400 + secondsToday(p) - ANCHOR_MIN_OF_DAY * 60

\* variant: a single truncated remainder
normalizeTruncated(x, pattern) == JsRem(x, pattern)

\* ((totalMin % PATTERN_MIN) + PATTERN_MIN) % PATTERN_MIN, times 60
normalize(x, pattern) == JsRem(JsRem(x, pattern) + pattern, pattern)

totalSec(p) == normalize(rawTotalSec(p), PATTERN_MIN * 60)

\* variant: the boundary minute counted as Summer
inSummerInclusive(total) == total <= SUMMER_MIN * 60

inSummer(total) == total < SUMMER_MIN * 60

periodSec(total) == IF inSummer(total) THEN SUMMER_MIN * 60 ELSE WINTER_MIN * 60

\* variant: the Summer length not subtracted in Winter
sinceLastSecNoOffset(total) == total

sinceLastSec(total) == IF inSummer(total) THEN total ELSE total - SUMMER_MIN * 60

\* variant: the remaining time taken from totalMin instead of sinceLast
toNextChangeSecFromTotal(total) == periodSec(total) - total

\* toNextChangeMin * 60
toNextChangeSec(total) == periodSec(total) - sinceLastSec(total)

seasonProgress(total) == Clamp01(<<sinceLastSec(total), periodSec(total)>>)

\* the record useSeason returns, without its nextChangeLabel field: that
\* field is the operator nextChangeLabel(d) below
useSeason(d) ==
    LET total == totalSec(getPDTParts(d))
    IN  [season           |-> IF inSummer(total) THEN "Summer" ELSE "Winter",
         timeToNextChange |-> fmtMMSS(Max(0, toNextChangeSec(total))),
         progress         |-> seasonProgress(total)]

----------------------------------------------------------------------------
(* The doubles of useSeason's minute arithmetic.

   p.second / 60 is not a whole number, so minutesToday and everything
   computed from it is a double that is rounded after each operation.  A
   double is written here <<J, hi, lo>>: the number J + (hi * 2^30 + lo) / 2^60
   with J an integer (its floor) and hi, lo in 0 .. 2^30 - 1.  Every double
   of these lines is below 2^20 in magnitude and, unless it is below 2^-7,
   a multiple of 2^-60, so it is represented exactly. *)

\* 2^30, the base of the two limbs of a fraction
LimbBase == 1073741824

\* 2^15, the base of the digits of a long division
DigitBase == 32768

RECURSIVE Log2Floor(_)
Log2Floor(n) == IF n < 2 THEN 0 ELSE 1 + Log2Floor(n \div 2)

\* -x
DNeg(x) ==
    IF x[2] = 0 /\ x[3] = 0 THEN <<0 - x[1], 0, 0>>
    ELSE IF x[3] = 0 THEN <<0 - x[1] - 1, LimbBase - x[2], 0>>
    ELSE <<0 - x[1] - 1, LimbBase - 1 - x[2], LimbBase - x[3]>>

\* the number of low bits of the 60-bit fraction of x >= 0 that lie beyond
\* the 53 significant bits of a double
DropBits(x) ==
    IF x[1] >= 1 THEN 8 + Log2Floor(x[1])
    ELSE IF x[2] >= 1 THEN Log2Floor(x[2]) - 22
    ELSE 0

\* x >= 0 rounded to 53 significant bits, to nearest, ties to even; sticky
\* tells that the exact value is above x by less than 2^-60
DRoundMag(x, sticky) ==
    LET k    == DropBits(x)
        unit == 2 ^ k
        rem  == x[3] % unit
        half == unit \div 2
        odd  == (x[3] \div unit) % 2 = 1
        up   == rem > half \/ (rem = half /\ (sticky \/ odd))
        lo2  == x[3] - rem + (IF up THEN unit ELSE 0)
    IN  IF k <= 0 THEN x
        ELSE IF lo2 < LimbBase THEN <<x[1], x[2], lo2>>
        ELSE IF x[2] + 1 < LimbBase THEN <<x[1], x[2] + 1, 0>>
        ELSE <<x[1] + 1, 0, 0>>

\* the double nearest to x
DRound(x, sticky) ==
    IF x[1] >= 0 THEN DRoundMag(x, sticky) ELSE DNeg(DRoundMag(DNeg(x), sticky))

\* x + k for a whole number k
DAddInt(x, k) == DRound(<<x[1] + k, x[2], x[3]>>, FALSE)

\* x + y
DAdd(x, y) ==
    LET lo == x[3] + y[3]
        hi == x[2] + y[2] + (lo \div LimbBase)
    IN  DRound(<<x[1] + y[1] + (hi \div LimbBase), hi % LimbBase, lo % LimbBase>>, FALSE)

\* x % m for a whole number m > 0: exact, with the sign of x
DRem(x, m) ==
    IF x[1] >= 0 THEN <<x[1] % m, x[2], x[3]>>
    ELSE LET n == DNeg(x) IN DNeg(<<n[1] % m, n[2], n[3]>>)

\* x / 60 for x >= 0, by long division of the fraction in digits of 15 bits
DDiv60(x) ==
    LET r0 == x[1] % 60
        n1 == r0 * DigitBase + (x[2] \div DigitBase)
        n2 == (n1 % 60) * DigitBase + (x[2] % DigitBase)
        n3 == (n2 % 60) * DigitBase + (x[3] \div DigitBase)
        n4 == (n3 % 60) * DigitBase + (x[3] % DigitBase)
    IN  DRound(<<x[1] \div 60,
                 (n1 \div 60) * DigitBase + (n2 \div 60),
                 (n3 \div 60) * DigitBase + (n4 \div 60)>>, n4 % 60 # 0)

\* Math.floor(x)
DFloor(x) == x[1]

minutesToday(p) == DAddInt(DDiv60(<<p.second, 0, 0>>), p.hour * 60 + p.minute)

\* totalMin before its normalisation
rawTotalMin(p) ==
    DAddInt(DAddInt(minutesToday(p), daysSinceAnchor(p) * 1440), 0 - ANCHOR_MIN_OF_DAY)

\* totalMin normalised into [0, PATTERN_MIN)
totalMin(p) == DRem(DAddInt(DRem(rawTotalMin(p), PATTERN_MIN), PATTERN_MIN), PATTERN_MIN)

\* totalMin < SUMMER_MIN, for a total that is totalMin
inSummerMin(total) == DFloor(total) < SUMMER_MIN

sinceLast(total) == IF inSummerMin(total) THEN total ELSE DAddInt(total, 0 - SUMMER_MIN)

toNextChangeMin(total) ==
    DAddInt(DNeg(sinceLast(total)), IF inSummerMin(total) THEN SUMMER_MIN ELSE WINTER_MIN)

nextTotalMin(p) == DRem(DAdd(minutesToday(p), toNextChangeMin(totalMin(p))), 24 * 60)

\* nextH and nextM, for a next that is nextTotalMin
nextH(next) == DFloor(DDiv60(next))

\* variant: the minute taken without the remainder by 60
nextMOfTotal(next) == DFloor(next)

nextM(next) == DFloor(DRem(next, 60))

\* the nextChangeLabel field of the record useSeason returns
nextChangeLabel(d) ==
    LET next == nextTotalMin(getPDTParts(d))
    IN  fmtHM(nextH(next), nextM(next)) \o " PDT"

----------------------------------------------------------------------------
(* usePortPhase: Day/Night on a 15-minute cycle of the civil minute *)

\* variant: the hour field read instead of the minute field
portWOfHour(p) == p.hour % 15

portW(p) == p.minute % 15

\* variant: the minute of the hour used instead of w
secInCycleOfMinute(p) == p.minute * 60 + p.second

secInCycle(p) == portW(p) * 60 + p.second

\* variant: Night starting one minute early
isNightFromTwelve(p) == portW(p) >= 12 \/ portW(p) <= 2

\* variant: the early part of Night one minute too long
isNightThroughThree(p) == portW(p) = 13 \/ portW(p) = 14 \/ portW(p) <= 3

isNight(p) == portW(p) = 13 \/ portW(p) = 14 \/ portW(p) <= 2

\* variant: the whole Night counted down to the end of the block
secsToFlipNoWrap(p) ==
    IF isNight(p) THEN 900 - secInCycle(p) ELSE 780 - secInCycle(p)

secsToFlip(p) ==
    IF isNight(p)
    THEN IF secInCycle(p) >= 780 THEN 900 - secInCycle(p) ELSE 180 - secInCycle(p)
    ELSE 780 - secInCycle(p)

\* variant: no wrapped branch for the early part of Night and no final clamp
portProgressUnclamped(p) ==
    IF isNight(p)
    THEN <<secInCycle(p) - 780, 300>>
    ELSE <<secInCycle(p) - 180, 600>>

\* variant: the early part of Night without its 120-second offset
portProgressNoOffset(p) ==
    Clamp01(IF isNight(p)
            THEN IF secInCycle(p) >= 780
                 THEN <<secInCycle(p) - 780, 300>>
                 ELSE <<secInCycle(p), 300>>
            ELSE <<secInCycle(p) - 180, 600>>)

portProgress(p) ==
    Clamp01(IF isNight(p)
            THEN IF secInCycle(p) >= 780
                 THEN <<secInCycle(p) - 780, 300>>
                 ELSE <<secInCycle(p) + 120, 300>>
            ELSE <<secInCycle(p) - 180, 600>>)

usePortPhase(d) ==
    LET p == getPDTParts(d)
    IN  [phase      |-> IF isNight(p) THEN "Night" ELSE "Day",
         icon       |-> IF isNight(p) THEN "moon" ELSE "sun",
         timeToFlip |-> fmtMMSS(secsToFlip(p)),
         progress   |-> portProgress(p)]

----------------------------------------------------------------------------
(* ringStyle: the filled angle of the progress ring, in degrees *)

\* variant: the progress converted to degrees without the clamp
ringStyleUnclamped(progress) ==
    [from |-> -90, deg |-> <<progress[1] * 360, progress[2]>>]

ringStyle(progress) ==
    LET clamped == MathMin(<<1, 1>>, MathMax(<<0, 1>>, progress))
    IN  [from |-> -90, deg |-> <<clamped[1] * 360, clamped[2]>>]

----------------------------------------------------------------------------
(* Values shared by the database pages *)

\* a value that may be null or absent: <<>> is null/undefined (or the empty
\* text "" of a numeric input), <<v>> is the value v
Null == <<>>

Some(v) == <<v>>

\* s.toLowerCase() on the letters the data uses
LowerChar(c) ==
    CASE c = "A" -> "a" [] c = "B" -> "b" [] c = "C" -> "c" [] c = "D" -> "d"
      [] c = "G" -> "g" [] c = "H" -> "h" [] c = "L" -> "l" [] c = "O" -> "o"
      [] c = "S" -> "s" [] c = "T" -> "t" [] OTHER -> c

RECURSIVE toLowerCase(_)
toLowerCase(s) ==
    IF Len(s) = 0 THEN ""
    ELSE LowerChar(SubSeq(s, 1, 1)) \o toLowerCase(SubSeq(s, 2, Len(s)))

\* hay.includes(key)
includes(hay, key) ==
    \E i \in 1 .. (Len(hay) - Len(key) + 1) : SubSeq(hay, i, i + Len(key) - 1) = key

\* s.endsWith(suffix)
endsWith(s, suffix) ==
    Len(s) >= Len(suffix) /\ SubSeq(s, Len(s) - Len(suffix) + 1, Len(s)) = suffix

\* the positions at which pattern occurs in s
Occurrences(s, pattern) ==
    {i \in 1 .. (Len(s) - Len(pattern) + 1) : SubSeq(s, i, i + Len(pattern) - 1) = pattern}

\* s.replace(pattern, by) for a string pattern: the first occurrence only,
\* and s itself when there is none
replace(s, pattern, by) ==
    IF Occurrences(s, pattern) = {} THEN s
    ELSE LET i == CHOOSE j \in Occurrences(s, pattern) :
                      \A k \in Occurrences(s, pattern) : j <= k
         IN  SubSeq(s, 1, i - 1) \o by \o SubSeq(s, i + Len(pattern), Len(s))

RECURSIVE trimStart(_)
trimStart(s) == IF Len(s) > 0 /\ SubSeq(s, 1, 1) = " " THEN trimStart(SubSeq(s, 2, Len(s))) ELSE s

RECURSIVE trimEnd(_)
trimEnd(s) ==
    IF Len(s) > 0 /\ SubSeq(s, Len(s), Len(s)) = " " THEN trimEnd(SubSeq(s, 1, Len(s) - 1)) ELSE s

\* s.trim()
trim(s) == trimEnd(trimStart(s))

\* arr.filter(keep)
filter(arr, keep(_)) == SelectSeq(arr, keep)

\* arr.some(test)
some(arr, test(_)) == \E i \in 1 .. Len(arr) : test(arr[i])

----------------------------------------------------------------------------
(* ShipsPage: the ship table, its filters, its sort and its compare tray *)

\* a row of /data/ships.json; of the columns that only the table shows
\* (levels, armour, crew, ...) none is kept
Ship(name, size, type, dura, vs, hs, ts, wr, material, cash, steam) ==
    [ShipName |-> name, Size |-> size, Type |-> type, BaseDura |-> dura,
     VSail |-> vs, HSail |-> hs, TurnSpeed |-> ts, WR |-> wr,
     BaseMaterial |-> material, CashShip |-> cash, Steam |-> steam]

\* a response of /data/ships.json: two rows share a name, one row has null
\* for its role and for some of its numbers
DATA_SHIPS ==
    << Ship("Caravel", "Lgt", Some("Adv"), Some(100), Some(60), Some(40), Some(12),
            Some(6), "Oak", "No", "No"),
       Ship("Baltic Cog", "Std", Some("Trd"), Some(200), Some(80), Some(20), Some(8),
            Some(9), "Teak", "Yes", "No"),
       Ship("Dhow", "Lgt", Null, Null, Null, Some(30), Some(14), Some(4), "Oak", "No", "No"),
       Ship("Caravel", "Std", Some("Adv"), Some(120), Some(70), Some(45), Some(11),
            Some(7), "Teak", "No", "No"),
       Ship("Atakebune", "Hvy", Some("Btl"), Some(300), Some(0), Some(90), Some(5),
            Some(12), "Oak", "No", "Yes"),
       Ship("Galleon", "Hvy", Some("Trd"), Some(250), Some(90), Some(50), Some(7),
            Some(10), "Teak", "No", "No") >>

\* a response of /data/ship_optional_skills.json
DATA_SKILLS == << [ShipName |-> "Caravel", OptionalSkills |-> <<"Calm">>] >>

\* the columns whose header the model clicks, of the twenty of columnLabels
HeaderKeys == {"Ship Name", "Size", "Base Dura."}

\* the sort keys of the sort menu: the columns and the virtual "Total Sails"
SortKeys == HeaderKeys \cup {"Total Sails"}

\* the twelve numeric range inputs
RangeFields ==
    {"minDura", "maxDura", "minVS", "maxVS", "minHS", "maxHS",
     "minTS", "maxTS", "minWR", "maxWR", "minTotal", "maxTotal"}

\* the useState initial values of ShipsPage; headerClicks is history, not
\* React state: the header clicks made in a row since the last other event,
\* the last two at most, each with the sort it found
ShipsPageInit ==
    [ships |-> <<>>, skills |-> <<>>,
     q |-> "", sortKey |-> "Ship Name", sortDir |-> "asc",
     sizeFilters |-> {}, roleFilters |-> {},
     cashFilter |-> "any", steamFilter |-> "any", materialQuery |-> "",
     ranges |-> [f \in RangeFields |-> Null],
     expanded |-> {}, compare |-> <<>>,
     headerClicks |-> <<>>]

\* x || 0 for a number that may be null
OrZero(x) == IF x = Null \/ x = Some(0) THEN 0 ELSE x[1]

\* s.Type || ""
OrEmpty(x) == IF x = Null THEN "" ELSE x[1]

\* variant: a null value passes a range that has no bound
inRangeNullPasses(val, min, max) ==
    IF val = Null THEN min = Null /\ max = Null
    ELSE /\ ~(min # Null /\ val[1] < min[1])
         /\ ~(max # Null /\ val[1] > max[1])

inRange(val, min, max) ==
    IF val = Null THEN FALSE
    ELSE IF min # Null /\ val[1] < min[1] THEN FALSE
    ELSE IF max # Null /\ val[1] > max[1] THEN FALSE
    ELSE TRUE

totalSails(s) == OrZero(s.VSail) + OrZero(s.HSail)

isCompared(st, name) == some(st.compare, LAMBDA s : s.ShipName = name)

canAddMore(st) == Len(st.compare) < 3

\* variant: the cap of three left out
toggleCompareShipNoCap(prev, ship) ==
    IF some(prev, LAMBDA s : s.ShipName = ship.ShipName)
    THEN filter(prev, LAMBDA s : s.ShipName # ship.ShipName)
    ELSE Append(prev, ship)

\* the updater toggleCompareShip passes to setCompare
toggleCompareShip(prev, ship) ==
    LET exists == some(prev, LAMBDA s : s.ShipName = ship.ShipName)
    IN  IF exists THEN filter(prev, LAMBDA s : s.ShipName # ship.ShipName)
        ELSE IF Len(prev) >= 3 THEN prev
        ELSE Append(prev, ship)

clearCompare(st) == [st EXCEPT !.compare = <<>>]

\* the updater of toggleChip and of toggleExpanded
toggleMember(prev, val) == IF val \in prev THEN prev \ {val} ELSE prev \cup {val}

\* whether the filter callback of `visible` keeps ship s
keeps(st, s) ==
    LET key  == toLowerCase(trim(st.q))
        hay  == toLowerCase(s.ShipName \o " " \o s.BaseMaterial \o " " \o OrEmpty(s.Type))
        role == OrEmpty(s.Type)
    IN  /\ ~(key # "" /\ ~includes(hay, key))
        /\ ~(st.sizeFilters # {} /\ s.Size \notin st.sizeFilters)
        /\ ~(st.roleFilters # {} /\ role \notin st.roleFilters)
        /\ ~(st.cashFilter # "any" /\ s.CashShip # st.cashFilter)
        /\ ~(st.steamFilter # "any" /\ s.Steam # st.steamFilter)
        /\ ~(st.materialQuery # ""
               /\ ~includes(toLowerCase(s.BaseMaterial), toLowerCase(st.materialQuery)))
        /\ inRange(s.BaseDura, st.ranges["minDura"], st.ranges["maxDura"])
        /\ inRange(s.VSail, st.ranges["minVS"], st.ranges["maxVS"])
        /\ inRange(s.HSail, st.ranges["minHS"], st.ranges["maxHS"])
        /\ inRange(s.TurnSpeed, st.ranges["minTS"], st.ranges["maxTS"])
        /\ inRange(s.WR, st.ranges["minWR"], st.ranges["maxWR"])
        /\ inRange(Some(totalSails(s)), st.ranges["minTotal"], st.ranges["maxTotal"])

\* the ships that pass the filters, in the order of the data
visibleUnsorted(st) == filter(st.ships, LAMBDA s : keeps(st, s))

\* the collation order of the characters the data uses
Alphabet == " .0123456789abcdefghijklmnopqrstuvwxyz"

CharRank(c) == CHOOSE i \in 1 .. Len(Alphabet) : SubSeq(Alphabet, i, i) = LowerChar(c)

\* a.localeCompare(b): negative, zero or positive
RECURSIVE localeCompare(_, _)
localeCompare(a, b) ==
    IF Len(a) = 0 /\ Len(b) = 0 THEN 0
    ELSE IF Len(a) = 0 THEN -1
    ELSE IF Len(b) = 0 THEN 1
    ELSE LET ra == CharRank(SubSeq(a, 1, 1))
             rb == CharRank(SubSeq(b, 1, 1))
         IN  IF ra < rb THEN -1
             ELSE IF ra > rb THEN 1
             ELSE localeCompare(SubSeq(a, 2, Len(a)), SubSeq(b, 2, Len(b)))

\* a[sortKey] for a column key, as a value that may be null
Field(s, key) ==
    CASE key = "Ship Name"  -> Some(s.ShipName)
      [] key = "Size"       -> Some(s.Size)
      [] key = "Base Dura." -> s.BaseDura

\* typeof v === "number", for v the value of column key
IsNumber(key, v) == key = "Base Dura." /\ v # Null

\* String(v ?? "")
StringOf(key, v) == IF v = Null THEN "" ELSE IF IsNumber(key, v) THEN ToString(v[1]) ELSE v[1]

\* the comparator `visible` passes to arr.sort
compareShips(st, a, b) ==
    LET dir == IF st.sortDir = "asc" THEN 1 ELSE -1
        av  == Field(a, st.sortKey)
        bv  == Field(b, st.sortKey)
    IN  IF st.sortKey = "Total Sails" THEN (totalSails(a) - totalSails(b)) * dir
        ELSE IF IsNumber(st.sortKey, av) /\ IsNumber(st.sortKey, bv) THEN (av[1] - bv[1]) * dir
        ELSE localeCompare(StringOf(st.sortKey, av), StringOf(st.sortKey, bv)) * dir

\* arr.sort(compareShips): a stable sort, by insertion
RECURSIVE sortShips(_, _)
sortShips(st, arr) ==
    IF arr = <<>> THEN <<>>
    ELSE LET done  == sortShips(st, SubSeq(arr, 1, Len(arr) - 1))
             x     == arr[Len(arr)]
             after == {i \in 1 .. Len(done) : compareShips(st, done[i], x) > 0}
             at    == IF after = {} THEN Len(done) + 1
                      ELSE CHOOSE i \in after : \A j \in after : i <= j
         IN  SubSeq(done, 1, at - 1) \o <<x>> \o SubSeq(done, at, Len(done))

\* the memo `visible`: the rows of the table
visible(st) == sortShips(st, visibleUnsorted(st))

\* uniqueSizes and uniqueRoles: the chips of the toolbar
uniqueSizes(st) == {st.ships[i].Size : i \in 1 .. Len(st.ships)}

uniqueRoles(st) == {OrEmpty(st.ships[i].Type) : i \in 1 .. Len(st.ships)} \ {""}

\* variant: the sort left as it is
resetFiltersKeepSort(st) ==
    [st EXCEPT !.q = "", !.sizeFilters = {}, !.roleFilters = {},
               !.cashFilter = "any", !.steamFilter = "any", !.materialQuery = "",
               !.ranges = [f \in RangeFields |-> Null]]

resetFilters(st) ==
    [st EXCEPT !.q = "", !.sizeFilters = {}, !.roleFilters = {},
               !.cashFilter = "any", !.steamFilter = "any", !.materialQuery = "",
               !.ranges = [f \in RangeFields |-> Null],
               !.sortKey = "Ship Name", !.sortDir = "asc"]

\* variant: the direction flipped whichever column is clicked
handleHeaderSortAlwaysFlip(st, key) ==
    [st EXCEPT !.sortKey = key, !.sortDir = IF st.sortDir = "asc" THEN "desc" ELSE "asc"]

handleHeaderSort(st, key) ==
    IF st.sortKey = key
    THEN [st EXCEPT !.sortDir = IF st.sortDir = "asc" THEN "desc" ELSE "asc"]
    ELSE [st EXCEPT !.sortKey = key, !.sortDir = "asc"]

\* handleSort of the ship skills page: the same handler on its own state
handleSort(st, key) ==
    IF st.sortKey = key
    THEN [st EXCEPT !.sortDir = IF st.sortDir = "asc" THEN "desc" ELSE "asc"]
    ELSE [st EXCEPT !.sortKey = key, !.sortDir = "asc"]

\* handleSort of the older ships page, whose direction is the boolean
\* sortAsc: the new <<sortKey, sortAsc>>
handleSortAsc(sortKey, sortAsc, key) ==
    IF sortKey = key THEN <<sortKey, ~sortAsc>> ELSE <<key, TRUE>>

\* the number of inputs, compared ships and expanded rows by which a state
\* of the page differs from its initial state, and of header clicks remembered
edits(st) ==
    (IF st.q # "" THEN 1 ELSE 0)
    + Cardinality(st.sizeFilters) + Cardinality(st.roleFilters)
    + (IF st.cashFilter # "any" THEN 1 ELSE 0)
    + (IF st.steamFilter # "any" THEN 1 ELSE 0)
    + (IF st.materialQuery # "" THEN 1 ELSE 0)
    + Cardinality({f \in RangeFields : st.ranges[f] # Null})
    + (IF st.sortKey # "Ship Name" THEN 1 ELSE 0)
    + (IF st.sortDir # "asc" THEN 1 ELSE 0)
    + Len(st.compare) + Cardinality(st.expanded) + Len(st.headerClicks)

\* the values typed into the inputs; materialQuery has no input, only
\* resetFilters sets it
QValues == {"", " Car", "teak"}

RangeValues == {Null, Some(50)}

\* the rows of the table: the ships of `visible`
Rows == {visible(shipsPage)[i] : i \in 1 .. Len(visible(shipsPage))}

\* an event of the page that leaves it in state st
ShipsEvent(st) ==
    /\ edits(st) <= MaxEdits
    /\ shipsPage' = st
    /\ UNCHANGED <<navVars, ringVars, skillImg, imageHook, loadout, dataPage>>

\* an event other than a header click
ShipsStep(st) == ShipsEvent([st EXCEPT !.headerClicks = <<>>])

\* setShips(d), mounted
LoadShips ==
    /\ shipsPage.ships = <<>>
    /\ ShipsStep([shipsPage EXCEPT !.ships = DATA_SHIPS])

\* setSkills(d), mounted
LoadSkills ==
    /\ shipsPage.skills = <<>>
    /\ ShipsStep([shipsPage EXCEPT !.skills = DATA_SKILLS])

SetQ ==
    \E v \in QValues :
        /\ v # shipsPage.q
        /\ ShipsStep([shipsPage EXCEPT !.q = v])

ToggleSizeChip ==
    \E v \in uniqueSizes(shipsPage) :
        ShipsStep([shipsPage EXCEPT !.sizeFilters = toggleMember(@, v)])

ToggleRoleChip ==
    \E v \in uniqueRoles(shipsPage) :
        ShipsStep([shipsPage EXCEPT !.roleFilters = toggleMember(@, v)])

SetCashFilter ==
    \E v \in {"any", "Yes", "No"} :
        /\ v # shipsPage.cashFilter
        /\ ShipsStep([shipsPage EXCEPT !.cashFilter = v])

SetSteamFilter ==
    \E v \in {"any", "Yes", "No"} :
        /\ v # shipsPage.steamFilter
        /\ ShipsStep([shipsPage EXCEPT !.steamFilter = v])

\* setMin / setMax of a RangeInput
SetRange ==
    \E f \in RangeFields, v \in RangeValues :
        /\ v # shipsPage.ranges[f]
        /\ ShipsStep([shipsPage EXCEPT !.ranges[f] = v])

\* IconSortSelect: a key of the menu, or a direction of the select
SetSortKey ==
    \E k \in SortKeys :
        /\ k # shipsPage.sortKey
        /\ ShipsStep([shipsPage EXCEPT !.sortKey = k])

SetSortDir ==
    \E d \in {"asc", "desc"} :
        /\ d # shipsPage.sortDir
        /\ ShipsStep([shipsPage EXCEPT !.sortDir = d])

\* a click on a column header
HandleHeaderSort ==
    \E k \in HeaderKeys :
        LET click == [key |-> k, sortKey |-> shipsPage.sortKey, sortDir |-> shipsPage.sortDir]
            clicks == Append(shipsPage.headerClicks, click)
        IN  /\ k \in HeaderKeys
            /\ ShipsEvent([handleHeaderSort(shipsPage, k) EXCEPT
                              !.headerClicks = IF Len(clicks) > 2 THEN Tail(clicks) ELSE clicks])

\* the Reset button of the toolbar
ResetFilters ==
    /\ edits(shipsPage) >= 0
    /\ ShipsStep(resetFilters(shipsPage))

\* a click on a row
ToggleExpanded ==
    \E s \in Rows :
        /\ ShipsStep([shipsPage EXCEPT !.expanded = toggleMember(@, s.ShipName)])

\* a click on the compare button of a row; the button is disabled once three
\* ships are compared, but clicks queued before that render still run the
\* updater
ToggleCompareShip ==
    \E s \in Rows :
        /\ ShipsStep([shipsPage EXCEPT !.compare = toggleCompareShip(@, s)])

\* the Clear button of the compare tray
ClearCompare ==
    /\ shipsPage.compare # <<>>
    /\ ShipsStep(clearCompare(shipsPage))

NextShips ==
    \/ LoadShips \/ LoadSkills
    \/ SetQ \/ ToggleSizeChip \/ ToggleRoleChip \/ SetCashFilter \/ SetSteamFilter
    \/ SetRange \/ SetSortKey \/ SetSortDir
    \/ HandleHeaderSort \/ ResetFilters
    \/ ToggleExpanded \/ ToggleCompareShip \/ ClearCompare

----------------------------------------------------------------------------
(* The icon of an optional skill and its onError fallback *)

\* the characters that replace(/[^a-z0-9]/g, "") keeps
IconChars == "abcdefghijklmnopqrstuvwxyz0123456789"

\* s.replace(/[^a-z0-9]/g, "")
RECURSIVE stripNonAlnum(_)
stripNonAlnum(s) ==
    IF Len(s) = 0 THEN ""
    ELSE (IF includes(IconChars, SubSeq(s, 1, 1)) THEN SubSeq(s, 1, 1) ELSE "")
            \o stripNonAlnum(SubSeq(s, 2, Len(s)))

skillIconBase(skillName) ==
    IF skillName = "" THEN ""
    ELSE "/images/ship_skills/" \o stripNonAlnum(toLowerCase(skillName))

\* the pages that show a skill icon: ShipsPage, the older ships page, and the
\* SkillIcon component of the ship skills page
IconComponents == {"ShipsPage", "ships/page", "SkillIcon"}

\* the names of the skills shown; "" is a card without a name
SkillNames == {"", "Calm", "Oar 2"}

\* the extensions under which an icon file can exist on the server
IconExts == {".png", ".webp", ".jpg"}

\* the origin of the document, which the src property of an <img> puts in
\* front of a root-relative src attribute
Origin == "http://uwodb"

\* img.src read back: the absolute URL
imgSrc(img) == Origin \o img.src

\* the icon as first rendered: firstSrc = base ? `${base}.png` : ""; with
\* an empty firstSrc (or src) no <img> is rendered and nothing is loaded
renderIcon(component, name, files) ==
    LET base == skillIconBase(name)
        firstSrc == IF base # "" THEN base \o ".png" ELSE ""
    IN  [component |-> component, base |-> base, firstSrc |-> firstSrc,
         src |-> firstSrc, display |-> "", files |-> files,
         loads |-> IF firstSrc # "" THEN <<firstSrc>> ELSE <<>>,
         loading |-> firstSrc # ""]

\* img.src = url, or setSrc(url): the browser starts to load url; an empty
\* src of SkillIcon renders no <img>
setSrc(img, url) ==
    [img EXCEPT !.src = url,
                !.loads = IF url # "" THEN Append(@, url) ELSE @,
                !.loading = url # ""]

\* variant: SkillIcon going back to the .png after the .webp
onErrorSkillIconBackToPng(img) ==
    IF img.base = "" THEN img
    ELSE IF endsWith(img.src, ".png") THEN setSrc(img, img.base \o ".webp")
    ELSE IF endsWith(img.src, ".webp") THEN setSrc(img, img.base \o ".png")
    ELSE setSrc(img, "")

\* onError of ShipsPage
onErrorShipsPage(img) ==
    IF endsWith(imgSrc(img), ".png")
        THEN setSrc(img, replace(img.firstSrc, ".png", ".webp"))
    ELSE IF endsWith(imgSrc(img), ".webp")
        THEN setSrc(img, replace(img.firstSrc, ".webp", ".jpg"))
    ELSE [img EXCEPT !.display = "none"]

\* onError of the older ships page
onErrorShipsPageOld(img) ==
    IF endsWith(imgSrc(img), ".png")
        THEN setSrc(img, replace(img.firstSrc, ".png", ".webp"))
    ELSE IF endsWith(imgSrc(img), ".webp")
        THEN setSrc(img, replace(img.firstSrc, ".png", ".jpg"))
    ELSE [img EXCEPT !.display = "none"]

\* onError of SkillIcon
onErrorSkillIcon(img) ==
    IF img.base = "" THEN img
    ELSE IF endsWith(img.src, ".png") THEN setSrc(img, img.base \o ".webp")
    ELSE IF endsWith(img.src, ".webp") THEN setSrc(img, img.base \o ".jpg")
    ELSE setSrc(img, "")

\* the file that img is loading exists
fileExists(img) == \E e \in img.files : endsWith(img.src, e)

\* an icon is on the page
IconRendered == skillImg # <<>>

IconFrame == UNCHANGED <<navVars, ringVars, shipsPage, imageHook, loadout, dataPage>>

\* a card is rendered, on one of the pages, for a skill of which the files
\* of some extensions exist
RenderIcon ==
    \E c \in IconComponents, n \in SkillNames, f \in SUBSET IconExts :
        /\ skillImg # renderIcon(c, n, f)
        /\ skillImg' = renderIcon(c, n, f)
        /\ IconFrame

\* the load of the current src succeeds
IconLoad ==
    /\ IconRendered
    /\ skillImg.loading
    /\ fileExists(skillImg)
    /\ skillImg' = [skillImg EXCEPT !.loading = FALSE]
    /\ IconFrame

\* the load of the current src fails and the browser calls onError
IconErrorGuard(component) ==
    /\ IconRendered
    /\ skillImg.component = component
    /\ skillImg.loading
    /\ ~fileExists(skillImg)
    /\ Len(skillImg.loads) < MaxLoads

ShipsPageIconError ==
    /\ IconErrorGuard("ShipsPage")
    /\ skillImg' = onErrorShipsPage([skillImg EXCEPT !.loading = FALSE])
    /\ IconFrame

ShipsPageOldIconError ==
    /\ IconErrorGuard("ships/page")
    /\ skillImg' = onErrorShipsPageOld([skillImg EXCEPT !.loading = FALSE])
    /\ IconFrame

SkillIconError ==
    /\ IconErrorGuard("SkillIcon")
    /\ skillImg' = onErrorSkillIcon([skillImg EXCEPT !.loading = FALSE])
    /\ IconFrame

NextIcon ==
    \/ RenderIcon \/ IconLoad
    \/ ShipsPageIconError \/ ShipsPageOldIconError \/ SkillIconError

----------------------------------------------------------------------------
(* useLocalImage and useSkillIcon: an image tried under a list of names *)

\* s.replace(/x/g, by) for the one character x
RECURSIVE replaceAll(_, _, _)
replaceAll(s, x, by) ==
    IF Len(s) = 0 THEN ""
    ELSE (IF SubSeq(s, 1, 1) = x THEN by ELSE SubSeq(s, 1, 1))
            \o replaceAll(SubSeq(s, 2, Len(s)), x, by)

\* s without its leading characters that are in chars (inside) or are not
RECURSIVE skipRun(_, _, _)
skipRun(s, chars, inside) ==
    IF Len(s) > 0 /\ (includes(chars, SubSeq(s, 1, 1)) <=> inside)
    THEN skipRun(SubSeq(s, 2, Len(s)), chars, inside)
    ELSE s

\* s.replace(/[chars]+/g, by) when inside, s.replace(/[^chars]+/g, by) when
\* not: every run of such characters becomes one by
RECURSIVE replaceRuns(_, _, _, _)
replaceRuns(s, chars, inside, by) ==
    IF Len(s) = 0 THEN ""
    ELSE IF includes(chars, SubSeq(s, 1, 1)) <=> inside
         THEN by \o replaceRuns(skipRun(s, chars, inside), chars, inside, by)
         ELSE SubSeq(s, 1, 1) \o replaceRuns(SubSeq(s, 2, Len(s)), chars, inside, by)

\* s.replace(/(^c|c$)/g, ""): one leading and one trailing c removed
stripEdges(s, c) ==
    LET head == IF Len(s) > 0 /\ SubSeq(s, 1, 1) = c THEN SubSeq(s, 2, Len(s)) ELSE s
    IN  IF Len(head) > 0 /\ SubSeq(head, Len(head), Len(head)) = c
        THEN SubSeq(head, 1, Len(head) - 1) ELSE head

\* encodeURIComponent on the characters of the names: letters, digits and
\* - _ . stay, a space and a slash are escaped
RECURSIVE encodeURIComponent(_)
encodeURIComponent(s) ==
    IF Len(s) = 0 THEN ""
    ELSE (CASE SubSeq(s, 1, 1) = " " -> "%20"
            [] SubSeq(s, 1, 1) = "/" -> "%2F"
            [] OTHER -> SubSeq(s, 1, 1))
            \o encodeURIComponent(SubSeq(s, 2, Len(s)))

\* the equipment page
LOCAL_IMAGE_BASE == "/images/sailor_equipment_images"
IMAGE_EXTS == <<".webp", ".png", ".jpg", ".jpeg", ".gif", ".avif">>
PLACEHOLDER_IMAGE == "/images/placeholder_equipment.png"

\* normalizeBase; the names have no accented letter, which NFD and the
\* removal of the combining marks would change
normalizeBase(s) ==
    stripEdges(
        replaceRuns(
            replaceRuns(replaceAll(toLowerCase(s), "&", "and"), IconChars, FALSE, "-"),
            "-", TRUE, "-"),
        "-")

\* unique(arr): the first occurrence of each element, in order
unique(arr) ==
    LET firsts == {i \in 1 .. Len(arr) : \A j \in 1 .. (i - 1) : arr[j] # arr[i]}
        RECURSIVE pick(_)
        pick(i) == IF i > Len(arr) THEN <<>>
                   ELSE (IF i \in firsts THEN <<arr[i]>> ELSE <<>>) \o pick(i + 1)
    IN  pick(1)

\* the candidates of one base, one per extension, in the order of exts
withExts(prefix, base, exts) == [e \in 1 .. Len(exts) |-> prefix \o "/" \o base \o exts[e]]

RECURSIVE concat(_)
concat(seqs) == IF seqs = <<>> THEN <<>> ELSE Head(seqs) \o concat(Tail(seqs))

buildLocalImageCandidates(item) ==
    LET bySlug == normalizeBase(IF item.slug # "" THEN item.slug ELSE item.name)
        byName == normalizeBase(item.name)
        snakeName == replaceAll(byName, "-", "_")
        rawNameSpaced == trim(item.name)
        bases == unique(<<bySlug, byName, snakeName, rawNameSpaced>>)
    IN  concat([b \in 1 .. Len(bases) |-> withExts(LOCAL_IMAGE_BASE, bases[b], IMAGE_EXTS)])
            \o <<PLACEHOLDER_IMAGE>>

\* useLocalImage: src of the render with state idx
useLocalImageSrc(candidates, idx) ==
    IF Len(candidates) = 0 THEN PLACEHOLDER_IMAGE
    ELSE candidates[(IF idx < Len(candidates) - 1 THEN idx ELSE Len(candidates) - 1) + 1]

\* variant: the index advanced without a look at the length
onErrorLocalImageUnbounded(candidates, i) == i + 1

\* useLocalImage: onError, as the update of idx
onErrorLocalImage(candidates, i) == IF i + 1 < Len(candidates) THEN i + 1 ELSE i

\* the skills page
IMAGE_BASE == "/images/skills"
SKILL_IMAGE_EXTS == <<".png", ".webp", ".jpg", ".jpeg">>
PLACEHOLDER == "/images/placeholder_skill.png"

\* useSkillIcon: the variants of the file name; the names have no accented
\* letter
skillIconCandidates(name) ==
    LET raw == trim(name)
        lower == toLowerCase(raw)
        hyphen == stripEdges(replaceRuns(lower, IconChars, FALSE, "-"), "-")
        underscore == stripEdges(replaceRuns(lower, IconChars, FALSE, "_"), "_")
        compact == stripNonAlnum(lower)
        noSlash == replaceRuns(lower, "\\/", TRUE, "-")
    IN  <<raw, lower, hyphen, underscore, compact, noSlash>>

\* `${IMAGE_BASE}/${encodeURIComponent(candidates[variantIdx])}${IMAGE_EXTS[extIdx]}`
skillIconSrc(candidates, variantIdx, extIdx) ==
    IMAGE_BASE \o "/" \o encodeURIComponent(candidates[variantIdx + 1])
        \o SKILL_IMAGE_EXTS[extIdx + 1]

\* useSkillIcon: onError, as the update of index and src
onErrorSkillIconHook(h) ==
    LET next == h.index + 1
        variantIdx == next \div Len(SKILL_IMAGE_EXTS)
        extIdx == next % Len(SKILL_IMAGE_EXTS)
    IN  IF variantIdx < Len(h.candidates)
        THEN [h EXCEPT !.index = next,
                       !.src = skillIconSrc(h.candidates, variantIdx, extIdx)]
        ELSE [h EXCEPT !.src = PLACEHOLDER]

\* the equipment shown in a CardHeader
Items ==
    {[slug |-> "", name |-> "cog"], [slug |-> "bolt", name |-> "Cog"],
     [slug |-> "", name |-> "Oar 2"]}

\* the skills shown in a SkillCard
SkillCardNames == {"Calm", "Oar 2", "A/B"}

\* the files on the server: none of those the hook asks for, or one of them
GoodFiles(urls) == {Null} \cup {Some(urls[i]) : i \in 1 .. Len(urls)}

\* the src that the <img> of the hook shows
hookSrc(h) ==
    IF h.hook = "useLocalImage" THEN useLocalImageSrc(h.candidates, h.index) ELSE h.src

\* after an update of the hook state the <img> loads its src if it changed
reload(before, after) ==
    IF hookSrc(after) # hookSrc(before)
    THEN [after EXCEPT !.loads = Append(@, hookSrc(after)), !.loading = TRUE]
    ELSE after

HookMounted == imageHook # <<>>

HookFrame == UNCHANGED <<navVars, ringVars, shipsPage, skillImg, loadout, dataPage>>

\* a CardHeader is mounted: useState(0), and the <img> loads candidates[0]
MountCardHeader ==
    \E item \in Items :
        LET candidates == buildLocalImageCandidates(item)
        IN  \E good \in GoodFiles(candidates) :
                /\ imageHook' =
                       [hook |-> "useLocalImage", candidates |-> candidates, index |-> 0,
                        src |-> "", good |-> good, loading |-> TRUE,
                        loads |-> <<useLocalImageSrc(candidates, 0)>>]
                /\ imageHook' # imageHook
                /\ HookFrame

\* a SkillCard is mounted: index 0 and the first variant with the first
\* extension
MountSkillCard ==
    \E name \in SkillCardNames :
        LET candidates == skillIconCandidates(name)
            urls == [i \in 1 .. (Len(candidates) * Len(SKILL_IMAGE_EXTS)) |->
                        skillIconSrc(candidates, (i - 1) \div Len(SKILL_IMAGE_EXTS),
                                     (i - 1) % Len(SKILL_IMAGE_EXTS))]
        IN  \E good \in GoodFiles(urls \o <<PLACEHOLDER>>) :
                /\ imageHook' =
                       [hook |-> "useSkillIcon", candidates |-> candidates, index |-> 0,
                        src |-> skillIconSrc(candidates, 0, 0), good |-> good,
                        loading |-> TRUE, loads |-> <<skillIconSrc(candidates, 0, 0)>>]
                /\ imageHook' # imageHook
                /\ HookFrame

\* the load of the src succeeds
HookImageLoad ==
    /\ HookMounted
    /\ imageHook.loading
    /\ imageHook.good = Some(hookSrc(imageHook))
    /\ imageHook' = [imageHook EXCEPT !.loading = FALSE]
    /\ HookFrame

\* the load of the src fails: onError of useLocalImage
LocalImageError ==
    /\ HookMounted
    /\ imageHook.hook = "useLocalImage"
    /\ imageHook.loading
    /\ imageHook.good # Some(hookSrc(imageHook))
    /\ LET h == [imageHook EXCEPT !.loading = FALSE]
       IN  imageHook' =
               reload(h, [h EXCEPT !.index = onErrorLocalImage(h.candidates, h.index)])
    /\ HookFrame

\* the load of the src fails: onError of useSkillIcon
SkillIconHookError ==
    /\ HookMounted
    /\ imageHook.hook = "useSkillIcon"
    /\ imageHook.loading
    /\ imageHook.good # Some(hookSrc(imageHook))
    /\ LET h == [imageHook EXCEPT !.loading = FALSE]
       IN  imageHook' = reload(h, onErrorSkillIconHook(h))
    /\ HookFrame

NextHook ==
    \/ MountCardHeader \/ MountSkillCard \/ HookImageLoad
    \/ LocalImageError \/ SkillIconHookError

----------------------------------------------------------------------------
(* The loadout calculator of the equipment page *)

SLOTS == <<"Head", "Body", "Hand", "Foot", "Weapon", "Accessory">>

\* the items that normalize builds, each with the slot of the file it came
\* from: two of every slot
EquipItems ==
    {[name |-> n, slot |-> SLOTS[i]] : n \in {"Plain", "Fine"}, i \in 1 .. Len(SLOTS)}

\* the object {}
EmptyObject == [k \in {} |-> Null]

\* obj[key]: undefined when the object has no such property
get(obj, key) == IF key \in DOMAIN obj THEN obj[key] ELSE Null

\* { ...obj, [key]: value }
spreadWith(obj, key, value) ==
    [k \in DOMAIN obj \cup {key} |-> IF k = key THEN value ELSE obj[k]]

\* variant: every item stored under "Head"
addToLoadoutUnderHead(prev, it) == spreadWith(prev, "Head", Some(it))

addToLoadout(prev, it) == spreadWith(prev, it.slot, Some(it))

clearSlot(p, slot) == spreadWith(p, slot, Null)

clearAll == EmptyObject

\* SLOTS.map((s) => loadout[s]).filter(Boolean): the items the totals add up
equipped(lo) ==
    LET RECURSIVE from(_)
        from(i) == IF i > Len(SLOTS) THEN <<>>
                   ELSE (IF get(lo, SLOTS[i]) # Null THEN get(lo, SLOTS[i]) ELSE <<>>)
                            \o from(i + 1)
    IN  from(1)

LoadoutFrame == UNCHANGED <<navVars, ringVars, shipsPage, skillImg, imageHook, dataPage>>

\* "Add to loadout" of a card
AddToLoadout ==
    \E it \in EquipItems :
        /\ loadout' = addToLoadout(loadout, it)
        /\ loadout' # loadout
        /\ LoadoutFrame

\* "Remove" of a slot, shown while the slot holds an item
ClearSlot ==
    \E i \in 1 .. Len(SLOTS) :
        /\ get(loadout, SLOTS[i]) # Null
        /\ loadout' = clearSlot(loadout, SLOTS[i])
        /\ LoadoutFrame

\* "Clear all", disabled while no slot holds an item
ClearAll ==
    /\ equipped(loadout) # <<>>
    /\ loadout' = clearAll
    /\ LoadoutFrame

NextLoadout == AddToLoadout \/ ClearSlot \/ ClearAll

----------------------------------------------------------------------------
(* The data-loading effects with a `cancelled` flag *)

\* the pages whose effect loads in a try / catch / finally around awaits
TryCatchPages == {"SailorEquipmentPage", "SkillsPage"}

DataPages == {"ShipsPage", "EquipmentPage", "RailwaysPage"} \cup TryCatchPages

\* a setState call of the component; late records a call made after the
\* cleanup of the effect has run
setState(st, field, value) ==
    [st EXCEPT ![field] = value, !.late = @ \/ st.unmounted]

\* variant: the setter called whatever the flag says
ifNotCancelledIgnored(st, field, value) == setState(st, field, value)

\* if (!cancelled) setX(value)
ifNotCancelled(st, field, value) ==
    IF ~st.cancelled THEN setState(st, field, value) ELSE st

\* the component as mounted, before its effect: useState of the data, the
\* error and the loading flag, and the fetches not yet started
useStates(page) ==
    [page |-> page, cancelled |-> FALSE, unmounted |-> FALSE, late |-> FALSE,
     data |-> Null, skills |-> Null, error |-> Null, loading |-> TRUE,
     pc |-> "fetch", pcSkills |-> IF page = "ShipsPage" THEN "fetch" ELSE "done",
     slots |-> 0, thrown |-> Null]

\* the synchronous part of the effect: EquipmentPage calls setLoading(true)
\* and setErr(null) before its first await
effect(page) ==
    IF page = "EquipmentPage"
    THEN setState(setState(useStates(page), "loading", TRUE), "error", Null)
    ELSE useStates(page)

\* catch (e) { if (!cancelled) setErr(message) } finally { if (!cancelled)
\* setLoading(false) }
catchFinally(st, message) ==
    [ifNotCancelled(ifNotCancelled(st, "error", Some(message)), "loading", FALSE)
        EXCEPT !.pc = "done"]

\* the guarded setter of the data and then the finally block
setDataFinally(st) ==
    [ifNotCancelled(ifNotCancelled(st, "data", Some("json")), "loading", FALSE)
        EXCEPT !.pc = "done"]

PageMounted == dataPage # <<>>

\* every promise of the effect is settled and every callback has run
EffectFinished(st) == st.pc \in {"done", "rejected"} /\ st.pcSkills \in {"done", "rejected"}

DataFrame == UNCHANGED <<navVars, ringVars, shipsPage, skillImg, imageHook, loadout>>

\* a page is opened: the component mounts and its effect runs
MountPage ==
    \E page \in DataPages :
        /\ PageMounted => dataPage.unmounted /\ EffectFinished(dataPage)
        /\ dataPage' = effect(page)
        /\ DataFrame

\* the page is left: the cleanup of the effect runs
UnmountPage ==
    /\ PageMounted
    /\ ~dataPage.unmounted
    /\ dataPage' = [dataPage EXCEPT !.cancelled = TRUE, !.unmounted = TRUE]
    /\ DataFrame

\* ShipsPage: fetch(...) of one of its two chains settles; a rejection has
\* no handler
ShipsPageFetchSettles ==
    \E chain \in {"pc", "pcSkills"}, ok \in BOOLEAN :
        /\ PageMounted
        /\ dataPage.page = "ShipsPage"
        /\ dataPage[chain] = "fetch"
        /\ dataPage' = [dataPage EXCEPT ![chain] = IF ok THEN "json" ELSE "rejected"]
        /\ DataFrame

\* ShipsPage: r.json() settles and the last then runs
ShipsPageJsonSettles ==
    \E chain \in {"pc", "pcSkills"}, ok \in BOOLEAN :
        /\ PageMounted
        /\ dataPage.page = "ShipsPage"
        /\ dataPage[chain] = "json"
        /\ dataPage' =
               IF ok
               THEN [ifNotCancelled(dataPage, IF chain = "pc" THEN "data" ELSE "skills",
                                    Some("json"))
                        EXCEPT ![chain] = "done"]
               ELSE [dataPage EXCEPT ![chain] = "rejected"]
        /\ DataFrame

\* EquipmentPage: the await of one slot returns (fetchFirstJSON does not
\* throw); normalize can throw on a malformed row; after the last slot the
\* items are set
EquipmentSlotLoaded ==
    \E throws \in BOOLEAN :
        /\ PageMounted
        /\ dataPage.page = "EquipmentPage"
        /\ dataPage.pc = "fetch"
        /\ dataPage' =
               IF throws THEN catchFinally(dataPage, "TypeError")
               ELSE IF dataPage.slots + 1 < Len(SLOTS)
                    THEN [dataPage EXCEPT !.slots = @ + 1]
                    ELSE setDataFinally([dataPage EXCEPT !.slots = @ + 1])
        /\ DataFrame

\* SailorEquipmentPage, SkillsPage: await fetch(DATA_URL) returns a response
\* that is ok or not, or throws
TryCatchFetchSettles ==
    \E outcome \in {"ok", "not ok", "rejected"} :
        /\ PageMounted
        /\ dataPage.page \in TryCatchPages
        /\ dataPage.pc = "fetch"
        /\ dataPage' =
               IF outcome = "ok" THEN [dataPage EXCEPT !.pc = "json"]
               ELSE catchFinally(dataPage, "Failed to load")
        /\ DataFrame

\* SailorEquipmentPage, SkillsPage: await res.json() returns or throws
TryCatchJsonSettles ==
    \E ok \in BOOLEAN :
        /\ PageMounted
        /\ dataPage.page \in TryCatchPages
        /\ dataPage.pc = "json"
        /\ dataPage' = IF ok THEN setDataFinally(dataPage)
                       ELSE catchFinally(dataPage, "SyntaxError")
        /\ DataFrame

\* RailwaysPage: the fetch settles and the first then runs (or is skipped)
RailwaysFetchSettles ==
    \E outcome \in {"ok", "not ok", "rejected"} :
        /\ PageMounted
        /\ dataPage.page = "RailwaysPage"
        /\ dataPage.pc = "fetch"
        /\ dataPage' =
               IF outcome = "ok" THEN [dataPage EXCEPT !.pc = "json"]
               ELSE [dataPage EXCEPT !.pc = "catch", !.thrown = Some("Failed to load")]
        /\ DataFrame

\* RailwaysPage: r.json() settles; the second then sets the data
RailwaysJsonSettles ==
    \E ok \in BOOLEAN :
        /\ PageMounted
        /\ dataPage.page = "RailwaysPage"
        /\ dataPage.pc = "json"
        /\ dataPage' =
               IF ok THEN [ifNotCancelled(dataPage, "data", Some("json")) EXCEPT !.pc = "finally"]
               ELSE [dataPage EXCEPT !.pc = "catch", !.thrown = Some("SyntaxError")]
        /\ DataFrame

\* RailwaysPage: the catch callback
RailwaysCatch ==
    /\ PageMounted
    /\ dataPage.page = "RailwaysPage"
    /\ dataPage.pc = "catch"
    /\ dataPage' =
           [ifNotCancelled(dataPage, "error", dataPage.thrown) EXCEPT !.pc = "finally"]
    /\ DataFrame

\* RailwaysPage: the finally callback
RailwaysFinally ==
    /\ PageMounted
    /\ dataPage.page = "RailwaysPage"
    /\ dataPage.pc = "finally"
    /\ dataPage' = [ifNotCancelled(dataPage, "loading", FALSE) EXCEPT !.pc = "done"]
    /\ DataFrame

NextData ==
    \/ MountPage \/ UnmountPage
    \/ ShipsPageFetchSettles \/ ShipsPageJsonSettles
    \/ EquipmentSlotLoaded
    \/ TryCatchFetchSettles \/ TryCatchJsonSettles
    \/ RailwaysFetchSettles \/ RailwaysJsonSettles \/ RailwaysCatch \/ RailwaysFinally

\* the state of the pages before any of them is used
PagesInit ==
    /\ shipsPage = ShipsPageInit
    /\ skillImg = <<>>
    /\ imageHook = <<>>
    /\ loadout = EmptyObject
    /\ dataPage = <<>>

----------------------------------------------------------------------------
(* The Navbar component *)

\* variant: useMemo with an empty dependency list, computed once per mount
useMemoNowOnce(cached, current) == cached

\* useMemo(() => getPDTParts(now), [now]): the `now` whose parts a render
\* uses, given the `now` of the cached parts and the current `now`
useMemoNow(cached, current) == IF current = cached THEN cached ELSE current

\* what a render of Navbar displays: functions of its state `now`
p == getPDTParts(memoNow)

season == useSeason(now)

port == usePortPhase(now)

timeLabel == fmtHMS(p.hour, p.minute, p.second) \o " PDT"

\* setInterval(() => setNow(new Date()), 1000) in the effect of instance i
StartInterval(i) == timers \cup {[id |-> nextId, owner |-> i]}

\* variant: an effect that returns no cleanup
ClearIntervalNone(id) == timers

\* the effect's cleanup: clearInterval(id)
ClearInterval(id) == {t \in timers : t.id # id}

\* the first mount of the page: useState(new Date()), render, effect
MountedAt(t) ==
    /\ clock = t
    /\ now = t
    /\ mounted = TRUE
    /\ inst = 1
    /\ timers = {[id |-> 1, owner |-> 1]}
    /\ nextId = 2
    /\ cleanupId = 1
    /\ staleSet = FALSE
    /\ memoNow = t
    /\ ringArg = <<0, 1>>
    /\ ringResult = ringStyle(<<0, 1>>)
    /\ PagesInit

\* the instant at which the lifecycle specification starts
LifecycleStart == DateOf(ANCHOR_Y, ANCHOR_M, ANCHOR_D, 3, 29, 58)

Init == MountedAt(LifecycleStart)

\* the Navbar is mounted again: a new instance with fresh state and effect
Mount ==
    /\ ~mounted
    /\ inst < MaxMounts
    /\ mounted' = TRUE
    /\ inst' = inst + 1
    /\ now' = clock
    /\ memoNow' = clock
    /\ timers' = StartInterval(inst + 1)
    /\ cleanupId' = nextId
    /\ nextId' = nextId + 1
    /\ UNCHANGED <<clock, staleSet, ringVars, pageVars>>

\* the Navbar is torn down: React runs the effect's cleanup
Unmount ==
    /\ mounted
    /\ mounted' = FALSE
    /\ timers' = ClearInterval(cleanupId)
    /\ UNCHANGED <<clock, now, memoNow, inst, nextId, cleanupId, staleSet, ringVars, pageVars>>

\* an active interval fires: its callback calls setNow(new Date()) of the
\* instance that started it, which re-renders if it is still mounted
TimerFire ==
    \E t \in timers :
        IF mounted /\ t.owner = inst
        THEN /\ now' = clock
             /\ memoNow' = useMemoNow(memoNow, clock)
             /\ UNCHANGED <<clock, mounted, inst, timers, nextId, cleanupId, staleSet,
                            ringVars, pageVars>>
        ELSE /\ staleSet' = TRUE
             /\ UNCHANGED <<clock, now, memoNow, mounted, inst, timers, nextId,
                            cleanupId, ringVars, pageVars>>

\* the wall clock advances by one second
ClockStep ==
    /\ clock < LifecycleStart + MaxClockSteps
    /\ clock' = clock + 1
    /\ UNCHANGED <<now, memoNow, mounted, inst, timers, nextId, cleanupId, staleSet,
                   ringVars, pageVars>>

Next == Mount \/ Unmount \/ TimerFire \/ ClockStep

Spec == Init /\ [][Next]_vars

----------------------------------------------------------------------------
(* The mounted Navbar sampled once per second over windows of civil time *)

\* first days of the windows: around the anchor, a month end, a year end
WindowStarts ==
    { DateOf(2025, 10, 3, 0, 0, 0),
      DateOf(2025, 12, 31, 0, 0, 0),
      DateOf(2026, 8, 31, 0, 0, 0) }

InWindow(w, t) == w <= t /\ t < w + WindowDays * 86400

InitTime ==
    \E w \in WindowStarts :
        \E t \in w .. (w + WindowDays * 86400 - 1) : MountedAt(t)

\* one second passes and the interval fires: setNow(new Date()), re-render
SecondTick ==
    /\ mounted
    /\ \E w \in WindowStarts : InWindow(w, clock) /\ InWindow(w, clock + 1)
    /\ clock' = clock + 1
    /\ now' = clock + 1
    /\ memoNow' = useMemoNow(memoNow, clock + 1)
    /\ UNCHANGED <<mounted, inst, timers, nextId, cleanupId, staleSet, ringVars, pageVars>>

NextTime == SecondTick

SpecTime == InitTime /\ [][NextTime]_vars

----------------------------------------------------------------------------
(* ringStyle called with arbitrary progress values *)

\* progress values: n/d below 0, inside [0,1] and above 1, the infinities and NaN
RingInputs ==
    {<<n, d>> : n \in (0 - MaxRingNum) .. (2 * MaxRingNum), d \in {1, 4, 300, 600}}
        \cup {NaN, <<1, 0>>, <<-1, 0>>}

\* a call ringStyle(progress)
RingCall ==
    \E q \in RingInputs :
        /\ ringArg' = q
        /\ ringResult' = ringStyle(q)
        /\ UNCHANGED <<navVars, pageVars>>

NextRing == RingCall

SpecRing == Init /\ [][NextRing]_vars

\* the ships page used by a visitor
SpecShips == Init /\ [][NextShips]_vars

\* the skill icons alone
SpecIcon == Init /\ [][NextIcon]_vars

\* the image hooks alone
SpecHook == Init /\ [][NextHook]_vars

\* the loadout calculator alone
SpecLoadout == Init /\ [][NextLoadout]_vars

\* the data-loading effects alone
SpecData == Init /\ [][NextData]_vars

----------------------------------------------------------------------------
(* Properties of the calculators, checked under SpecTime *)

\* the anchor instant: the start of a Summer
Anchor == DateOf(ANCHOR_Y, ANCHOR_M, ANCHOR_D, 0, 0, 0) + ANCHOR_MIN_OF_DAY * 60

\* the season quantities of the displayed instant
seasonTotal == totalSec(p)

remaining == toNextChangeSec(seasonTotal)

\* C1: at every civil instant the progress returned by useSeason and the
\* progress returned by usePortPhase lie in the closed interval [0,1].
ProgressInUnitInterval ==
    LET sp == season.progress
        pp == port.progress
    IN  /\ FracLeq(<<0, 1>>, sp) /\ FracLeq(sp, <<1, 1>>)
        /\ FracLeq(<<0, 1>>, pp) /\ FracLeq(pp, <<1, 1>>)

\* the early part of Night, where the unclamped late-night formula is negative
WitnessProgressInUnitInterval ==
    /\ isNight(p) /\ secInCycle(p) = 0
    /\ port.progress = <<120, 300>>
    /\ season.progress[1] > 0

\* C2: the port countdown is the time to the next Day/Night transition: the
\* phase label secsToFlip seconds later differs from the current label, and
\* at every whole second strictly before that it equals the current label.
PortCountdownIsTimeToTransition ==
    LET flip == secsToFlip(p)
    IN  /\ usePortPhase(now + flip).phase # port.phase
        /\ \A k \in 1 .. (flip - 1) : usePortPhase(now + k).phase = port.phase

\* C3: the season countdown is the time to the next Summer/Winter
\* transition: toNextChangeMin minutes later the other season is reported
\* with progress 0, and after each second before that the season is the same
\* and the countdown is one second shorter.
SeasonCountdownIsTimeToTransition ==
    [][ LET cur   == season
            after == useSeason(now + remaining)
            next  == useSeason(now')
        IN  /\ remaining >= 1
            /\ after.season # cur.season
            /\ after.progress[1] = 0
            /\ (now' = now + 1 /\ remaining > 1)
                   => /\ next.season = cur.season
                      /\ toNextChangeSec(totalSec(getPDTParts(now'))) = remaining - 1
                      /\ next.timeToNextChange = fmtMMSS(remaining - 1) ]_vars

\* the last second of a Summer
WitnessSeasonCountdown == season.season = "Summer" /\ remaining = 1

\* C4 as stated: t minutes after the anchor, Summer with progress t/660 when
\* (t mod 1200) < 660, Winter with progress ((t mod 1200) - 660)/540 otherwise.
SeasonAfterAnchorLiteral ==
    now >= Anchor =>
        LET t == now - Anchor
            r == t % (PATTERN_MIN * 60)
        IN  IF r < SUMMER_MIN * 60
            THEN /\ season.season = "Summer"
                 /\ FracEq(season.progress, <<t, SUMMER_MIN * 60>>)
            ELSE /\ season.season = "Winter"
                 /\ FracEq(season.progress, <<r - SUMMER_MIN * 60, WINTER_MIN * 60>>)

\* C4 (amended): t minutes after the anchor, Summer with progress
\* (t mod 1200)/660 when (t mod 1200) < 660, Winter with progress
\* ((t mod 1200) - 660)/540 otherwise; at the anchor Summer with progress 0,
\* 330 minutes after it Summer with progress 0.5.
SeasonAfterAnchor ==
    now >= Anchor =>
        LET t == now - Anchor
            r == t % (PATTERN_MIN * 60)
        IN  /\ IF r < SUMMER_MIN * 60
               THEN /\ season.season = "Summer"
                    /\ FracEq(season.progress, <<r, SUMMER_MIN * 60>>)
               ELSE /\ season.season = "Winter"
                    /\ FracEq(season.progress, <<r - SUMMER_MIN * 60, WINTER_MIN * 60>>)
            /\ t = 0 => season.season = "Summer" /\ season.progress[1] = 0
            /\ t = 330 * 60 => season.season = "Summer" /\ FracEq(season.progress, <<1, 2>>)

\* the first second of the Winter that follows the anchor's Summer
WitnessSeasonAfterAnchor ==
    /\ now = Anchor + SUMMER_MIN * 60
    /\ season.season = "Winter"
    /\ season.progress[1] = 0

\* C5: at every season transition, sampled at whole seconds: at the last
\* second before it the remaining time is one second and progress is at
\* least 1 - 1/(60*periodMin); at the next second the label has changed and
\* progress is exactly 0.
SeasonTransitionBoundary ==
    [][ LET cur  == season
            next == useSeason(now')
        IN  (now' = now + 1 /\ (remaining = 1 \/ next.season # cur.season))
                => /\ remaining = 1
                   /\ cur.timeToNextChange = "00:01"
                   /\ FracLeq(<<periodSec(seasonTotal) - 1, periodSec(seasonTotal)>>,
                              cur.progress)
                   /\ next.season # cur.season
                   /\ next.progress[1] = 0 ]_vars

\* the first second of a Summer that follows a Winter
WitnessSeasonTransition ==
    /\ season.season = "Summer"
    /\ season.progress[1] = 0
    /\ now > Anchor

\* C6: usePortPhase has period 15 minutes: the same second 15 minutes later
\* (into the next hour when minute + 15 >= 60) gives the same phase label,
\* icon, progress and timeToFlip.
PortPhasePeriodic ==
    LET later == usePortPhase(now + 15 * 60)
    IN  /\ later.phase = port.phase
        /\ later.icon = port.icon
        /\ later.timeToFlip = port.timeToFlip
        /\ FracEq(later.progress, port.progress)

\* an instant whose minute + 15 falls into the next hour
WitnessPortPhasePeriodic ==
    /\ p.minute = 50 /\ p.second = 30
    /\ getPDTParts(now + 15 * 60).minute = 5
    /\ port.phase = "Day"

----------------------------------------------------------------------------
(* Properties of the Navbar's timer, checked under Spec *)

\* C9: each mounted Navbar has exactly one active interval timer, no timer
\* stays active after its Navbar is unmounted, and no tick calls setNow of
\* an unmounted Navbar.
OneTimerWhileMounted ==
    /\ mounted => /\ Cardinality(timers) = 1
                  /\ \A t \in timers : t.owner = inst /\ t.id = cleanupId
    /\ ~mounted => timers = {}
    /\ staleSet = FALSE

\* a Navbar mounted for the second time whose timer has sampled a later clock
WitnessOneTimerWhileMounted ==
    /\ mounted /\ inst = 2
    /\ timers = {[id |-> 2, owner |-> 2]}
    /\ now > LifecycleStart
    /\ now = clock

----------------------------------------------------------------------------
(* Further properties of the calculators, checked under SpecTime *)

\* C11: the remaining time is never reported negative: the season countdown
\* in seconds passed to fmtMMSS is >= 0 and at most the current period
\* length, and the port secsToFlip is >= 0 and at most 600.
CountdownsInRange ==
    LET shown == Max(0, remaining)
        flip  == secsToFlip(p)
    IN  /\ 0 <= shown /\ shown <= periodSec(seasonTotal)
        /\ shown = remaining
        /\ season.timeToNextChange = fmtMMSS(shown)
        /\ 0 <= flip /\ flip <= 600
        /\ port.timeToFlip = fmtMMSS(flip)

\* the first second of a block, where a countdown to the end of the block
\* would show 900
WitnessCountdownsInRange ==
    /\ secInCycle(p) = 0
    /\ secsToFlip(p) = 180
    /\ remaining > 0

\* hours by which C12 shifts the displayed instant: another hour of the day,
\* the same hour of the next day
ShiftHours == {1, 24}

\* C12: the port phase depends only on the civil minute and second: an
\* instant with the same minute and second in another hour, day, month or
\* year gives the same phase label, icon, progress and timeToFlip.
PortPhaseOfMinuteSecondOnly ==
    LET cur   == port
        inHr  == now % 3600
        same(d) == LET q == getPDTParts(d)
                   IN  /\ q.minute = p.minute /\ q.second = p.second
                       /\ usePortPhase(d) = cur
    IN  /\ \A k \in ShiftHours : same(now + k * 3600)
        /\ \A w \in WindowStarts : same(w + inHr)

\* an instant compared with the same minute and second of another year
WitnessPortPhaseOfMinuteSecondOnly ==
    /\ p.year = 2025 /\ p.hour = 23 /\ p.minute = 14 /\ p.second = 59
    /\ port.phase = "Night"
    /\ \E w \in WindowStarts : getPDTParts(w + (now % 3600)).year = 2026

\* C13: the Night and Day windows partition the 900-second cycle:
\* secInCycle is in 0..899, the phase is Night exactly when secInCycle is in
\* [780,899] or [0,179] (w in {13,14} or w <= 2) and Day otherwise, and a
\* 15-minute block holds exactly 300 Night seconds and 600 Day seconds.
PortWindowsPartition ==
    LET c == secInCycle(p)
        w == p.minute % 15
        nightAt(k) == usePortPhase(now + k).phase = "Night"
    IN  /\ c \in 0 .. 899
        /\ c = (now % 900)
        /\ (port.phase = "Night") <=> (c \in 780 .. 899 \/ c \in 0 .. 179)
        /\ (port.phase = "Night") <=> (w \in {13, 14} \/ w <= 2)
        /\ (port.phase = "Day") <=> (c \in 180 .. 779)
        /\ port.phase \in {"Night", "Day"}
        /\ c = 0 => /\ Cardinality({k \in 0 .. 899 : nightAt(k)}) = 300
                    /\ Cardinality({k \in 0 .. 899 : ~nightAt(k)}) = 600

\* the first second of a 15-minute block
WitnessPortWindowsPartition ==
    /\ secInCycle(p) = 0 /\ p.minute = 45
    /\ port.phase = "Night"
    /\ usePortPhase(now + 180).phase = "Day"
    /\ usePortPhase(now + 780).phase = "Night"

\* C14: as civil time advances one second at a time the season label
\* alternates Summer, Winter, Summer, ...: within a run the time since its
\* start grows by one second per tick, and the label changes exactly after
\* 660 minutes of Summer and after 540 minutes of Winter.
SeasonRunsAlternate ==
    [][ LET cur   == season
            next  == useSeason(now')
            since == sinceLastSec(seasonTotal)
            after == sinceLastSec(totalSec(getPDTParts(now')))
            len   == IF cur.season = "Summer" THEN 660 * 60 ELSE 540 * 60
        IN  now' = now + 1 =>
              /\ cur.season \in {"Summer", "Winter"}
              /\ since \in 0 .. (len - 1)
              /\ IF since = len - 1
                 THEN next.season # cur.season /\ after = 0
                 ELSE next.season = cur.season /\ after = since + 1 ]_vars

\* the first second of a new year, reached in the middle of a run
WitnessSeasonRunsAlternate ==
    /\ p.year = 2026 /\ p.month = 1 /\ p.day = 1
    /\ secondsToday(p) = 0
    /\ sinceLastSec(seasonTotal) > 0

\* C15: the normalised minutes since the anchor are in [0, 1200), also
\* before the anchor where the raw value is negative; such instants continue
\* the 1200-minute pattern backwards: one minute before the anchor is Winter
\* with progress 539/540 and one minute remaining.
NormalizedBeforeAnchor ==
    LET raw == rawTotalSec(p)
    IN  /\ seasonTotal \in 0 .. (1200 * 60 - 1)
        /\ raw = now - Anchor
        /\ (seasonTotal - raw) % (1200 * 60) = 0
        /\ now < Anchor => raw < 0
        /\ now = Anchor - 60
              => /\ season.season = "Winter"
                 /\ FracEq(season.progress, <<539, 540>>)
                 /\ remaining = 60
                 /\ season.timeToNextChange = "01:00"

\* one minute before the anchor
WitnessNormalizedBeforeAnchor ==
    /\ now = Anchor - 60
    /\ rawTotalSec(p) = -60
    /\ season.season = "Winter"

\* C18: daysSinceAnchor is a whole number of calendar days that depends on
\* the civil date only: any two instants of one civil date give the same
\* value, and the next civil date gives exactly one more, across month and
\* year ends too.
DaysSinceAnchorByCivilDate ==
    LET days     == daysSinceAnchor(p)
        midnight == now - secondsToday(p)
        last     == midnight + 86399
    IN  /\ days \in Int
        /\ daysSinceAnchor(getPDTParts(midnight)) = days
        /\ daysSinceAnchor(getPDTParts(last)) = days
        /\ daysSinceAnchor(getPDTParts(last + 1)) = days + 1
        /\ daysSinceAnchor(getPDTParts(now + 86400)) = days + 1
        /\ (p.year = ANCHOR_Y /\ p.month = ANCHOR_M /\ p.day = ANCHOR_D) => days = 0

\* the last evening of a year
WitnessDaysSinceAnchorByCivilDate ==
    /\ p.year = 2025 /\ p.month = 12 /\ p.day = 31 /\ p.hour = 23
    /\ getPDTParts(now + 86400).year = 2026
    /\ daysSinceAnchor(p) = 88

----------------------------------------------------------------------------
(* Properties of ringStyle, checked under SpecRing *)

\* the angle ringStyle is to fill for a progress: clamp(progress, 0, 1) * 360
\* degrees within [0, 360], from -90 degrees
RingAngleOf(arg, style) ==
    /\ style.from = -90
    /\ NumLeq(<<0, 1>>, style.deg) /\ NumLeq(style.deg, <<360, 1>>)
    /\ NumLeq(arg, <<0, 1>>) => NumEq(style.deg, <<0, 1>>)
    /\ NumLeq(<<1, 1>>, arg) => NumEq(style.deg, <<360, 1>>)
    /\ (NumLeq(<<0, 1>>, arg) /\ NumLeq(arg, <<1, 1>>))
            => NumEq(style.deg, <<360 * arg[1], arg[2]>>)

----------------------------------------------------------------------------
(* Properties of the Navbar's render, checked under Spec *)

\* C20: a timer tick changes only the sampled instant `now`; after it the
\* displayed server time, season and port phase are all computed from that
\* one sample.
TickChangesOnlyNow ==
    [][ (mounted /\ mounted' /\ inst' = inst /\ now' # now)
            => /\ now' = clock
               /\ UNCHANGED <<clock, mounted, inst, timers, nextId, cleanupId, staleSet>>
               /\ memoNow' = now'
               /\ LET shown == getPDTParts(memoNow')
                      taken == getPDTParts(now')
                  IN  fmtHMS(shown.hour, shown.minute, shown.second)
                        = fmtHMS(taken.hour, taken.minute, taken.second) ]_vars

\* the first Navbar after a tick that sampled a later clock
WitnessTickChangesOnlyNow ==
    /\ mounted /\ inst = 1
    /\ now = LifecycleStart + 2
    /\ timeLabel = "03:30:00 PDT"
    /\ season.season = "Summer"

----------------------------------------------------------------------------
(* The next-change label, checked under SpecTime *)

\* the civil second of the day at which the season changes next
transitionSecondOfDay == (secondsToday(p) + remaining) % 86400

\* C16: the next-change label is the HH:MM rendering of
\* (minutesToday + remainingMinutes) mod 1440, with hours in 00..23 and
\* minutes in 00..59, whatever the date of the transition.
NextChangeLabelIsSum ==
    LET next  == nextTotalMin(p)
        sum   == transitionSecondOfDay
    IN  /\ nextH(next) \in 0 .. 23
        /\ nextM(next) \in 0 .. 59
        /\ fmtHM(nextH(next), nextM(next)) \o " PDT"
             = fmtHM(sum \div 3600, (sum % 3600) \div 60) \o " PDT"

\* C16, as far as the code goes: the label is a clock time, either the
\* minute of the transition or the minute before it
NextChangeLabelWithinAMinute ==
    LET next  == nextTotalMin(p)
        sum   == transitionSecondOfDay
        h     == nextH(next)
        m     == nextM(next)
    IN  /\ h \in 0 .. 23
        /\ m \in 0 .. 59
        /\ h * 60 + m \in {sum \div 60, ((sum \div 60) + 1439) % 1440}

\* 2025-10-03 00:00:08, Winter until 07:30: the label reads 07:29
WitnessNextChangeLabelEarly ==
    /\ now = DateOf(2025, 10, 3, 0, 0, 8)
    /\ transitionSecondOfDay = 7 * 3600 + 30 * 60
    /\ nextChangeLabel(now) = "07:29 PDT"

\* C17: within one season period the label does not change, and it is the
\* civil clock time (HH:MM) of the first instant of the next period.
NextChangeLabelConstantInPeriod ==
    [][ useSeason(now').season = useSeason(now).season
            => /\ nextChangeLabel(now') = nextChangeLabel(now)
               /\ LET change == getPDTParts(now + remaining)
                  IN  nextChangeLabel(now) = fmtHM(change.hour, change.minute) \o " PDT" ]_vars

----------------------------------------------------------------------------
(* Properties of the ships page, checked under SpecShips *)

\* the ships the page has loaded
LoadedShips == {shipsPage.ships[i] : i \in 1 .. Len(shipsPage.ships)}

\* C21: the compare selection holds at most 3 ships and no two ships with
\* the same name; toggling a ship that is not selected while 3 are selected
\* leaves the selection unchanged, and toggling a selected ship removes
\* exactly that ship.
CompareSelectionBounded ==
    LET c == shipsPage.compare
    IN  /\ Len(c) <= 3
        /\ \A i, j \in 1 .. Len(c) : i # j => c[i].ShipName # c[j].ShipName
        /\ \A s \in LoadedShips :
              LET after == toggleCompareShip(c, s)
                  rest  == {i \in 1 .. Len(c) : c[i].ShipName # s.ShipName}
              IN  /\ (~isCompared(shipsPage, s.ShipName) /\ Len(c) = 3) => after = c
                  /\ isCompared(shipsPage, s.ShipName)
                        => /\ Len(after) = Len(c) - 1
                           /\ \A i \in rest : \E k \in 1 .. Len(after) : after[k] = c[i]
                           /\ \A k \in 1 .. Len(after) : after[k].ShipName # s.ShipName

\* three ships are compared, one of them a Caravel, and a fourth ship of the
\* table is not selected
WitnessCompareSelectionBounded ==
    /\ Len(shipsPage.compare) = 3
    /\ isCompared(shipsPage, "Caravel")
    /\ \E s \in Rows : ~isCompared(shipsPage, s.ShipName)

\* every filter of state st is at its default: empty search, no chips, cash
\* and steam "any", empty material query, all ranges empty
FiltersAtDefault(st) ==
    /\ st.q = "" /\ st.sizeFilters = {} /\ st.roleFilters = {}
    /\ st.cashFilter = "any" /\ st.steamFilter = "any" /\ st.materialQuery = ""
    /\ \A f \in RangeFields : st.ranges[f] = Null

\* C24: resetFilters restores the search text, every filter, every numeric
\* range and the sort key and direction to their initial values from any
\* state, and leaves the compare selection, the expanded rows and the loaded
\* data unchanged.
ResetRestoresFilters ==
    [][ shipsPage' = [resetFilters(shipsPage) EXCEPT !.headerClicks = <<>>]
            => LET after == shipsPage'
               IN  /\ FiltersAtDefault(after)
                   /\ after.sortKey = ShipsPageInit.sortKey
                   /\ after.sortDir = ShipsPageInit.sortDir
                   /\ after.compare = shipsPage.compare
                   /\ after.expanded = shipsPage.expanded
                   /\ after.ships = shipsPage.ships
                   /\ after.skills = shipsPage.skills ]_vars

\* the page after a reset that had a ship compared and a row expanded
WitnessResetRestoresFilters ==
    /\ FiltersAtDefault(shipsPage)
    /\ shipsPage.sortKey = "Ship Name" /\ shipsPage.sortDir = "asc"
    /\ shipsPage.compare # <<>> /\ shipsPage.expanded # {}
    /\ shipsPage.ships = DATA_SHIPS

\* the ships of the table
VisibleShips == {visible(shipsPage)[i] : i \in 1 .. Len(visible(shipsPage))}

\* C27: when every filter is at its default the visible list contains every
\* loaded ship, ships whose numeric stats are null or missing included, and
\* the count "Showing N of M" has N = M.
DefaultFiltersShowAll ==
    FiltersAtDefault(shipsPage)
        => /\ \A s \in LoadedShips : s \in VisibleShips
           /\ Len(visible(shipsPage)) = Len(shipsPage.ships)

\* a ship none of whose filtered numbers is null
HasAllStats(s) ==
    /\ s.BaseDura # Null /\ s.VSail # Null /\ s.HSail # Null
    /\ s.TurnSpeed # Null /\ s.WR # Null

\* C27, as far as the code goes: with every filter at its default the
\* visible list holds the loaded ships that have all their numbers
DefaultFiltersShowShipsWithStats ==
    FiltersAtDefault(shipsPage)
        => /\ VisibleShips = {s \in LoadedShips : HasAllStats(s)}
           /\ Len(visible(shipsPage))
                = Cardinality({i \in 1 .. Len(shipsPage.ships) : HasAllStats(shipsPage.ships[i])})

\* the data is loaded, no filter is set, and the Dhow, whose durability is
\* null, is not in the table: "Showing 5 of 6 ships"
WitnessDefaultFiltersHideShip ==
    /\ FiltersAtDefault(shipsPage)
    /\ Len(shipsPage.ships) = 6
    /\ Len(visible(shipsPage)) = 5
    /\ \E s \in LoadedShips : s.ShipName = "Dhow" /\ s \notin VisibleShips

\* the other direction
Flip(dir) == IF dir = "asc" THEN "desc" ELSE "asc"

\* the last header click did what a click does: on the sort column it
\* flipped the direction and kept the column, on another column it selected
\* that column, ascending; the handlers of the two other pages do the same
LastClickToggles ==
    shipsPage.headerClicks # <<>>
        => LET e == shipsPage.headerClicks[Len(shipsPage.headerClicks)]
               before == [sortKey |-> e.sortKey, sortDir |-> e.sortDir]
           IN  /\ shipsPage.sortKey = e.key
               /\ shipsPage.sortDir = IF e.sortKey = e.key THEN Flip(e.sortDir) ELSE "asc"
               /\ handleSort(before, e.key)
                    = [sortKey |-> shipsPage.sortKey, sortDir |-> shipsPage.sortDir]
               /\ handleSortAsc(e.sortKey, e.sortDir = "asc", e.key)
                    = <<shipsPage.sortKey, shipsPage.sortDir = "asc">>

\* two header clicks in a row on one column
TwoClicksOnOneHeader ==
    /\ Len(shipsPage.headerClicks) = 2
    /\ shipsPage.headerClicks[1].key = shipsPage.headerClicks[2].key

\* C28: a header click on the current sort column flips the direction and
\* keeps the column, a click on any other column selects it ascending; so two
\* consecutive clicks on the same header restore the previous direction.
HeaderSortTwoClicksRestore ==
    /\ LastClickToggles
    /\ TwoClicksOnOneHeader => shipsPage.sortDir = shipsPage.headerClicks[1].sortDir

\* C28, amended: two consecutive clicks restore the direction when the
\* header is that of the column already sorted by; on another column they
\* leave that column selected, descending.
HeaderSortTwoClicks ==
    /\ LastClickToggles
    /\ TwoClicksOnOneHeader
         => IF shipsPage.headerClicks[1].sortKey = shipsPage.headerClicks[1].key
            THEN /\ shipsPage.sortDir = shipsPage.headerClicks[1].sortDir
                 /\ shipsPage.sortKey = shipsPage.headerClicks[1].sortKey
            ELSE /\ shipsPage.sortDir = "desc"
                 /\ shipsPage.sortKey = shipsPage.headerClicks[1].key

\* two clicks on the header of the sort column, the direction back to "asc"
WitnessHeaderSortTwoClicks ==
    /\ TwoClicksOnOneHeader
    /\ shipsPage.headerClicks[1] = [key |-> "Ship Name", sortKey |-> "Ship Name", sortDir |-> "asc"]
    /\ shipsPage.headerClicks[2] = [key |-> "Ship Name", sortKey |-> "Ship Name", sortDir |-> "desc"]
    /\ shipsPage.sortDir = "asc"

----------------------------------------------------------------------------
(* Properties of the skill icons, checked under SpecIcon *)

\* the sources the fallback may load, in its order
IconChain(img) == <<img.base \o ".png", img.base \o ".webp", img.base \o ".jpg">>

\* the loads so far are the first ones of the chain: .png, .webp, .jpg in
\* this order, none twice
LoadsFollowChain(img) ==
    /\ Len(img.loads) <= 3
    /\ img.loads = SubSeq(IconChain(img), 1, Len(img.loads))

\* the icon was given up: hidden, or its src cleared
GaveUp(img) == img.display = "none" \/ img.src = ""

\* the icon is given up exactly when the three files were tried and failed
GivesUpAfterChain(img) ==
    /\ GaveUp(img) => img.loads = IconChain(img) /\ ~img.loading
    /\ img.loads = IconChain(img) /\ ~img.loading /\ ~fileExists(img) => GaveUp(img)

\* C22: on every page the fallback tries .png, then .webp, then .jpg, each at
\* most once and never one already tried, and then gives the icon up.
IconFallbackTerminates ==
    IconRendered /\ skillImg.base # ""
        => LoadsFollowChain(skillImg) /\ GivesUpAfterChain(skillImg)

\* what the code does: on the older ships page and in SkillIcon the chain
\* is followed and ends; on ShipsPage the loads alternate between the .png
\* and the .webp, the .jpg is never loaded and the icon is never given up
IconFallbackPerPage ==
    IconRendered /\ skillImg.base # ""
        => IF skillImg.component = "ShipsPage"
           THEN /\ \A i \in 1 .. Len(skillImg.loads) :
                       skillImg.loads[i] = IconChain(skillImg)[IF i % 2 = 1 THEN 1 ELSE 2]
                /\ ~GaveUp(skillImg)
           ELSE LoadsFollowChain(skillImg) /\ GivesUpAfterChain(skillImg)

\* ShipsPage, no icon file of the skill exists: the .png is loaded again
\* after the .webp
WitnessIconFallbackLoops ==
    /\ IconRendered
    /\ skillImg.component = "ShipsPage"
    /\ skillImg.files = {}
    /\ skillImg.loads = <<"/images/ship_skills/calm.png", "/images/ship_skills/calm.webp",
                          "/images/ship_skills/calm.png">>

----------------------------------------------------------------------------
(* Properties of the image hooks, checked under SpecHook *)

\* the placeholder of the page of hook h
HookPlaceholder(h) == IF h.hook = "useLocalImage" THEN PLACEHOLDER_IMAGE ELSE PLACEHOLDER

\* the sources of hook h in the order of its index, the placeholder last
HookChain(h) ==
    IF h.hook = "useLocalImage" THEN h.candidates
    ELSE [i \in 1 .. (Len(h.candidates) * Len(SKILL_IMAGE_EXTS)) |->
              skillIconSrc(h.candidates, (i - 1) \div Len(SKILL_IMAGE_EXTS),
                           (i - 1) % Len(SKILL_IMAGE_EXTS))] \o <<PLACEHOLDER>>

\* the index is one of the chain, the loads so far are the first sources of
\* the chain in its order, the one shown is the last of them, and when no
\* load is under way and the file shown does not exist it is the placeholder
ChainFollowed(h) ==
    /\ h.index \in 0 .. (Len(HookChain(h)) - 1)
    /\ h.hook = "useSkillIcon" => h.index < Len(h.candidates) * Len(SKILL_IMAGE_EXTS)
    /\ Len(h.loads) \in 1 .. Len(HookChain(h))
    /\ h.loads = SubSeq(HookChain(h), 1, Len(h.loads))
    /\ hookSrc(h) = h.loads[Len(h.loads)]
    /\ Len(h.loads) = (IF h.hook = "useSkillIcon" /\ h.src = PLACEHOLDER THEN 2 ELSE 1) + h.index
    /\ ~h.loading /\ h.good # Some(hookSrc(h))
           => hookSrc(h) = HookPlaceholder(h) /\ Len(h.loads) = Len(HookChain(h))

\* no source was loaded twice
NoSourceTwice(h) == \A i, j \in 1 .. Len(h.loads) : h.loads[i] = h.loads[j] => i = j

\* an error of the placeholder itself
PlaceholderError ==
    /\ LocalImageError \/ SkillIconHookError
    /\ hookSrc(imageHook) = HookPlaceholder(imageHook)

\* an error of the placeholder changes neither the src nor the index
PlaceholderStays ==
    PlaceholderError
        => LET h == imageHook'
           IN  /\ hookSrc(h) = HookPlaceholder(h)
               /\ h.index = imageHook.index
               /\ h.loads = imageHook.loads

\* C23: each error advances the hook to the next candidate in order, the
\* index stays in the valid range, no candidate is tried twice, the chain
\* ends at the placeholder, and an error of the placeholder changes nothing.
CandidateChainEndsAtPlaceholder ==
    /\ [](HookMounted => ChainFollowed(imageHook) /\ NoSourceTwice(imageHook))
    /\ [][PlaceholderStays]_vars

\* what the code does: as above, but only useLocalImage, whose bases went
\* through unique, loads no source twice; useSkillIcon tries each position of
\* its list once
CandidateChainByPosition ==
    /\ [](HookMounted =>
             /\ ChainFollowed(imageHook)
             /\ imageHook.hook = "useLocalImage" => NoSourceTwice(imageHook))
    /\ [][PlaceholderStays]_vars

\* useSkillIcon of "Calm", no file exists: /images/skills/calm.png, tried as
\* the variant lower, is loaded again as the variant hyphen
WitnessCandidateTriedAgain ==
    /\ HookMounted
    /\ imageHook.hook = "useSkillIcon"
    /\ imageHook.good = Null
    /\ Len(imageHook.loads) = 9
    /\ imageHook.loads[5] = "/images/skills/calm.png"
    /\ imageHook.loads[9] = "/images/skills/calm.png"

----------------------------------------------------------------------------
(* Properties of the loadout calculator, checked under SpecLoadout *)

SlotNames == {SLOTS[i] : i \in 1 .. Len(SLOTS)}

\* the slots other than s hold what they held
OtherSlotsKept(s) == \A t \in SlotNames \ {s} : get(loadout', t) = get(loadout, t)

\* each slot holds at most one item, and every item is under its own slot
LoadoutWellFormed(lo) ==
    /\ DOMAIN lo \subseteq SlotNames
    /\ \A s \in SlotNames : get(lo, s) # Null => get(lo, s)[1].slot = s
    /\ \A s \in SlotNames :
           Cardinality({i \in 1 .. Len(equipped(lo)) : equipped(lo)[i].slot = s}) <= 1

\* C25: addToLoadout(it) stores it under it.slot and keeps the other slots,
\* clearSlot(s) empties slot s only, clearAll empties every slot; so each
\* slot holds at most one item and every item sits under its own slot.
LoadoutSlotsIndependent ==
    /\ [](LoadoutWellFormed(loadout))
    /\ [][/\ \A it \in EquipItems :
                 loadout' = addToLoadout(loadout, it)
                     => get(loadout', it.slot) = Some(it) /\ OtherSlotsKept(it.slot)
          /\ \A s \in SlotNames :
                 loadout' = clearSlot(loadout, s) /\ get(loadout, s) # Null
                     => get(loadout', s) = Null /\ OtherSlotsKept(s)
          /\ ClearAll => \A s \in SlotNames : get(loadout', s) = Null]_vars

\* three slots were filled, one of them was replaced and one cleared
WitnessLoadoutSlotsIndependent ==
    /\ get(loadout, "Head") = Some([name |-> "Fine", slot |-> "Head"])
    /\ get(loadout, "Body") = Some([name |-> "Plain", slot |-> "Body"])
    /\ "Weapon" \in DOMAIN loadout /\ loadout["Weapon"] = Null
    /\ Len(equipped(loadout)) = 2

----------------------------------------------------------------------------
(* Properties of the data-loading effects, checked under SpecData *)

\* the state that the setters of the component write
ComponentState(st) == <<st.data, st.skills, st.error, st.loading>>

\* C26: once the cleanup of the effect has run no setter is called, so the
\* state of the unmounted component stays what it was when it was left,
\* however the settling of the fetch and the unmount are interleaved.
NoSetterAfterCleanup ==
    /\ [](PageMounted => ~dataPage.late)
    /\ [][PageMounted /\ dataPage.unmounted /\ dataPage'.unmounted
              => ComponentState(dataPage') = ComponentState(dataPage)]_vars

\* the railways page was left while its fetch was under way; the response
\* came, every callback ran, and the page still shows no data and loading
WitnessNoSetterAfterCleanup ==
    /\ PageMounted
    /\ dataPage.page = "RailwaysPage"
    /\ dataPage.unmounted
    /\ dataPage.pc = "done"
    /\ dataPage.thrown = Null
    /\ ComponentState(dataPage) = <<Null, Null, Null, TRUE>>

====
